---- MODULE Spec2Model ----
(***************************************************************************)
(* A model of the chained hash set of hashset.c / hashset.h.               *)
(*                                                                         *)
(* Pointers are natural numbers and NULL is 0.  Chain nodes                *)
(* (HashSetElements) live in `heap`, a memory of MaxNodes node addresses;  *)
(* `allocated` is the set of node addresses malloc has handed out and free *)
(* has not taken back.  Elements are caller-owned Item objects (test.c):   *)
(* an element pointer p in ElemPtrs designates the object ItemAt(p), whose *)
(* key part is `index` and whose value part is `word`.  Several objects    *)
(* share a key, so that a replacement and a probe are distinct references. *)
(*                                                                         *)
(* Each function of hashset.c is an operator from the table state to the   *)
(* table state, its loop a RECURSIVE walk of the chain; each call a caller *)
(* makes is one action.  Spec is the caller that makes any call; SpecTable,*)
(* SpecLookup and SpecIter are callers that make some of the calls only.   *)
(***************************************************************************)
EXTENDS Integers, Sequences, FiniteSets, TLC

\* ---- bounds ----
MaxKey == 2        \* keys (Item.index) are 0..MaxKey
MaxCount == 2      \* bucket counts given to HashSetNew are 1..MaxCount
MaxNodes == 3      \* node addresses malloc can hand out

NULL == 0
Keys == 0..MaxKey

\* The value parts the caller's Item objects carry: TestAddUpdates stores
\* "hello" under index 1 and then replaces it with a second object, "HELLO".
Words == <<"hello", "HELLO">>

\* One Item object per key and word.
ElemPtrs == 1..((MaxKey + 1) * Len(Words))
Nodes == 1..MaxNodes

VARIABLES
    set,          \* the HashSet struct: count, elements, hasher, comparator
    heap,         \* node address -> HashSetElements struct
    allocated,    \* node addresses currently allocated
    arrayLive,    \* TRUE while set.elements (the bucket array) is allocated
    it,           \* the HashSetIterator struct: bucket, element
    itState,      \* whether the caller holds an iterator: "none", "fresh"
                  \*   (no Add or Remove since HashSetIteratorNew), "stale",
                  \*   or "undefined" once a call has read freed memory
    yielded,      \* elements returned by HashSetIteratorNext so far
    model,        \* history: key -> element of the latest Add not yet removed
    everAdded,    \* history: keys passed to HashSetAdd on this table
    items,        \* the caller's objects: the addresses of those it has
                  \*   freed and of those whose value part it has overwritten
    threads,      \* thread inside a HashSetAdd -> its position and locals
    last          \* history: the latest call: the key of its argument (the
                  \*   count for HashSetNew, the number of nodes the table
                  \*   held for HashSetDelete, the freed node read by a
                  \*   HashSetIteratorNext), the pointer it returned (1
                  \*   or 0 for a bool) and whether the key was stored before

vars == <<set, heap, allocated, arrayLive, it, itState, yielded, model,
          everAdded, items, threads, last>>

\* ---- the caller's elements, hasher and comparator (test.c) ----

\* The Item object an element pointer designates.
ItemAt(p) ==
    [index |-> (p - 1) \div Len(Words),
     word |-> Words[((p - 1) % Len(Words)) + 1]]

ItemHash(item) == ItemAt(item).index

ItemCompare(a, b) ==
    IF ItemAt(a).index < ItemAt(b).index THEN -1
    ELSE IF ItemAt(a).index > ItemAt(b).index THEN 1
    ELSE 0

\* Two more Hasher functions a caller may pass for Item objects.  Both are
\* functions of the key part, so that objects that compare equal hash alike:
\* one puts every element in one chain, the other makes pairs of
\* neighbouring keys collide.
ZeroHash(item) == 0

HalfHash(item) == ItemAt(item).index \div 2

Hashers == {"ItemHash", "HalfHash", "ZeroHash"}

\* set->hasher(element) and set->comparator(a, b): calls through the
\* function pointers stored in the struct.
CallHasher(s, element) ==
    IF s.hasher = "ItemHash" THEN ItemHash(element)
    ELSE IF s.hasher = "HalfHash" THEN HalfHash(element)
    ELSE ZeroHash(element)

CallComparator(s, a, b) ==
    IF s.comparator = "ItemCompare" THEN ItemCompare(a, b) ELSE 0

\* ---- memory ----

\* The caller's objects as it allocates them (CopyNew in test.c): each is
\* allocated and holds the value part it was made with.
InitItems == [freed |-> {}, written |-> {}]

\* The canonical content of a node that is not allocated: its bytes are
\* indeterminate and are never read by a defined execution.
FreeNode == [element |-> NULL, next |-> NULL]

\* What a field of a node holds between malloc and the first write to it: an
\* indeterminate value, which is no pointer of the model.
Uninit == -1

UninitNode == [element |-> Uninit, next |-> Uninit]

\* ---- hashset.c ----

\* HashSetNew with malloc in place of calloc: the bucket heads are not
\* zeroed (here they hold the first node address).
HashSetNewMalloc(count, hasher, comparator) ==
    [count |-> count,
     elements |-> [i \in 0..(count - 1) |-> 1],
     hasher |-> hasher,
     comparator |-> comparator]

HashSetNew(count, hasher, comparator) ==
    [count |-> count,
     elements |-> [i \in 0..(count - 1) |-> NULL],
     hasher |-> hasher,
     comparator |-> comparator]

\* GetWalk without the comparison: the head of the chain is taken to match.
GetWalkNoCompare(s, h, es, element) ==
    IF es = NULL THEN NULL ELSE h[es].element

\* The walk of HashSetGet from node es: the matching node's element, or NULL.
RECURSIVE GetWalk(_, _, _, _)
GetWalk(s, h, es, element) ==
    IF es = NULL THEN NULL
    ELSE IF CallComparator(s, h[es].element, element) = 0 THEN h[es].element
    ELSE GetWalk(s, h, h[es].next, element)

\* HashSetGet that looks in the first bucket whatever the hash.
HashSetGetBucket0(s, h, element) ==
    GetWalk(s, h, s.elements[0], element)

HashSetGet(s, h, element) ==
    LET hash == CallHasher(s, element) % s.count
    IN  GetWalk(s, h, s.elements[hash], element)

HashSetContains(s, h, element) == HashSetGet(s, h, element) # NULL

\* AddWalk without the comparison: it always runs to the tail.
RECURSIVE AddWalkNoCompare(_, _, _, _)
AddWalkNoCompare(s, h, es, element) ==
    IF h[es].next = NULL THEN [node |-> es, match |-> FALSE]
    ELSE AddWalkNoCompare(s, h, h[es].next, element)

\* The walk of HashSetAdd from a non-NULL node es: the node at which the loop
\* returns, and whether it returned because of a match.
RECURSIVE AddWalk(_, _, _, _)
AddWalk(s, h, es, element) ==
    IF CallComparator(s, h[es].element, element) = 0
    THEN [node |-> es, match |-> TRUE]
    ELSE IF h[es].next = NULL THEN [node |-> es, match |-> FALSE]
    ELSE AddWalk(s, h, h[es].next, element)

\* HashSetAdd that returns on a match without storing the new reference.
HashSetAddKeepOld(s, h, a, element, n) ==
    LET hash == CallHasher(s, element) % s.count
        es == s.elements[hash]
    IN  IF es = NULL
        THEN [set |-> [s EXCEPT !.elements[hash] = n],
              heap |-> [h EXCEPT ![n] = [element |-> element, next |-> NULL]],
              allocated |-> a \cup {n}]
        ELSE LET w == AddWalk(s, h, es, element)
             IN  IF w.match
                 THEN [set |-> s, heap |-> h, allocated |-> a]
                 ELSE [set |-> s,
                       heap |-> [h EXCEPT ![w.node].next = n,
                                          ![n] = [element |-> element,
                                                  next |-> NULL]],
                       allocated |-> a \cup {n}]

\* HashSetAdd that on a match initialises the node as it does a new one:
\* it clears the node's next link too.
HashSetAddResetNext(s, h, a, element, n) ==
    LET hash == CallHasher(s, element) % s.count
        es == s.elements[hash]
    IN  IF es = NULL
        THEN [set |-> [s EXCEPT !.elements[hash] = n],
              heap |-> [h EXCEPT ![n] = [element |-> element, next |-> NULL]],
              allocated |-> a \cup {n}]
        ELSE LET w == AddWalk(s, h, es, element)
             IN  IF w.match
                 THEN [set |-> s,
                       heap |-> [h EXCEPT ![w.node] = [element |-> element,
                                                       next |-> NULL]],
                       allocated |-> a]
                 ELSE [set |-> s,
                       heap |-> [h EXCEPT ![w.node].next = n,
                                          ![n] = [element |-> element,
                                                  next |-> NULL]],
                       allocated |-> a \cup {n}]

\* HashSetAdd that puts the first node of a chain in bucket 0 instead of
\* bucket `hash`.
HashSetAddBucket0(s, h, a, element, n) ==
    LET hash == CallHasher(s, element) % s.count
        es == s.elements[hash]
    IN  IF es = NULL
        THEN [set |-> [s EXCEPT !.elements[0] = n],
              heap |-> [h EXCEPT ![n] = [element |-> element, next |-> NULL]],
              allocated |-> a \cup {n}]
        ELSE LET w == AddWalk(s, h, es, element)
             IN  IF w.match
                 THEN [set |-> s,
                       heap |-> [h EXCEPT ![w.node].element = element],
                       allocated |-> a]
                 ELSE [set |-> s,
                       heap |-> [h EXCEPT ![w.node].next = n,
                                          ![n] = [element |-> element,
                                                  next |-> NULL]],
                       allocated |-> a \cup {n}]

\* HashSetAdd, with n the address malloc returns if it is called.
\* The result is the table state <<set, heap, allocated>> afterwards.
HashSetAdd(s, h, a, element, n) ==
    LET hash == CallHasher(s, element) % s.count
        es == s.elements[hash]
    IN  IF es = NULL
        THEN [set |-> [s EXCEPT !.elements[hash] = n],
              heap |-> [h EXCEPT ![n] = [element |-> element, next |-> NULL]],
              allocated |-> a \cup {n}]
        ELSE LET w == AddWalk(s, h, es, element)
             IN  IF w.match
                 THEN [set |-> s,
                       heap |-> [h EXCEPT ![w.node].element = element],
                       allocated |-> a]
                 ELSE [set |-> s,
                       heap |-> [h EXCEPT ![w.node].next = n,
                                          ![n] = [element |-> element,
                                                  next |-> NULL]],
                       allocated |-> a \cup {n}]

\* Whether HashSetAdd calls malloc.
AddAllocates(s, h, element) ==
    LET es == s.elements[CallHasher(s, element) % s.count]
    IN  es = NULL \/ ~AddWalk(s, h, es, element).match

\* RemoveWalk that looks at the head of the chain only.
RemoveWalkHeadOnly(s, h, es, previous, element) ==
    IF es # NULL /\ CallComparator(s, h[es].element, element) = 0
    THEN [es |-> es, previous |-> previous]
    ELSE [es |-> NULL, previous |-> es]

\* RemoveWalk that tests the comparator's result with <= 0 instead of == 0.
RECURSIVE RemoveWalkLessEqual(_, _, _, _, _)
RemoveWalkLessEqual(s, h, es, previous, element) ==
    IF es = NULL THEN [es |-> NULL, previous |-> previous]
    ELSE IF CallComparator(s, h[es].element, element) <= 0
    THEN [es |-> es, previous |-> previous]
    ELSE RemoveWalkLessEqual(s, h, h[es].next, es, element)

\* The walk of HashSetRemove: the matching node and its predecessor, or
\* es = NULL when the chain ends without a match.
RECURSIVE RemoveWalk(_, _, _, _, _)
RemoveWalk(s, h, es, previous, element) ==
    IF es = NULL THEN [es |-> NULL, previous |-> previous]
    ELSE IF CallComparator(s, h[es].element, element) = 0
    THEN [es |-> es, previous |-> previous]
    ELSE RemoveWalk(s, h, h[es].next, es, element)

\* HashSetRemove that patches the link to the unlinked node with NULL in place
\* of es->next.
HashSetRemoveDropsTail(s, h, a, element) ==
    LET hash == CallHasher(s, element) % s.count
        w == RemoveWalk(s, h, s.elements[hash], NULL, element)
    IN  IF w.es = NULL
        THEN [set |-> s, heap |-> h, allocated |-> a]
        ELSE LET h1 == IF w.previous # NULL
                       THEN [h EXCEPT ![w.previous].next = NULL]
                       ELSE h
                 s1 == IF w.previous # NULL
                       THEN s
                       ELSE [s EXCEPT !.elements[hash] = NULL]
             IN  [set |-> s1,
                  heap |-> [h1 EXCEPT ![w.es] = FreeNode],
                  allocated |-> a \ {w.es}]

\* HashSetRemove that frees the matching node and leaves the link to it as it
\* is.
HashSetRemoveKeepsLink(s, h, a, element) ==
    LET hash == CallHasher(s, element) % s.count
        w == RemoveWalk(s, h, s.elements[hash], NULL, element)
    IN  IF w.es = NULL
        THEN [set |-> s, heap |-> h, allocated |-> a]
        ELSE [set |-> s,
              heap |-> [h EXCEPT ![w.es] = FreeNode],
              allocated |-> a \ {w.es}]

HashSetRemove(s, h, a, element) ==
    LET hash == CallHasher(s, element) % s.count
        w == RemoveWalk(s, h, s.elements[hash], NULL, element)
    IN  IF w.es = NULL
        THEN [set |-> s, heap |-> h, allocated |-> a]
        ELSE LET h1 == IF w.previous # NULL
                       THEN [h EXCEPT ![w.previous].next = h[w.es].next]
                       ELSE h
                 s1 == IF w.previous # NULL
                       THEN s
                       ELSE [s EXCEPT !.elements[hash] = h[w.es].next]
             IN  [set |-> s1,
                  heap |-> [h1 EXCEPT ![w.es] = FreeNode],
                  allocated |-> a \ {w.es}]

\* The inner loop of HashSetDelete on one chain: the nodes it frees.
RECURSIVE DeleteChain(_, _)
DeleteChain(h, es) ==
    IF es = NULL THEN {}
    ELSE LET next == h[es].next IN {es} \cup DeleteChain(h, next)

HashSetDelete(s, h, a) ==
    LET freed == UNION {DeleteChain(h, s.elements[i]) : i \in 0..(s.count - 1)}
    IN  [set |-> [s EXCEPT !.elements = [i \in 0..(s.count - 1) |-> NULL]],
         heap |-> [n \in Nodes |-> IF n \in freed THEN FreeNode ELSE h[n]],
         allocated |-> a \ freed]

RECURSIVE DeleteChainEvents(_, _)
RECURSIVE DeleteChainEventsFreeFirst(_, _)

\* A chain loop that frees the node first and reads its next field after.
DeleteChainEventsFreeFirst(h, es) ==
    IF es = NULL THEN <<>>
    ELSE <<[op |-> "free", node |-> es], [op |-> "read", node |-> es]>>
         \o DeleteChainEventsFreeFirst(h, h[es].next)

\* The inner loop of HashSetDelete on one chain, as the accesses it makes to
\* the node memory, in order: es->next is read, then es is freed.
DeleteChainEvents(h, es) ==
    IF es = NULL THEN <<>>
    ELSE LET next == h[es].next
         IN  <<[op |-> "read", node |-> es], [op |-> "free", node |-> es]>>
             \o DeleteChainEvents(h, next)

\* The outer loop of HashSetDelete from bucket i on.
RECURSIVE DeleteBucketsEvents(_, _, _)
DeleteBucketsEvents(s, h, i) ==
    IF i < s.count
    THEN DeleteChainEvents(h, s.elements[i]) \o DeleteBucketsEvents(s, h, i + 1)
    ELSE <<>>

\* HashSetDelete as the accesses it makes: every chain, then
\* free(set->elements).
HashSetDeleteEvents(s, h) ==
    Append(DeleteBucketsEvents(s, h, 0), [op |-> "freeArray", node |-> NULL])

\* HashSetIteratorNew that starts at the last bucket.
HashSetIteratorNewLastBucket(s) ==
    [bucket |-> s.count - 1, element |-> s.elements[s.count - 1]]

HashSetIteratorNew(s) == [bucket |-> 0, element |-> s.elements[0]]

RECURSIVE HashSetIteratorNext(_, _, _)
RECURSIVE HashSetIteratorNextRewinds(_, _, _)

\* HashSetIteratorNext that, when it runs off the last bucket, goes back to
\* the first one.
HashSetIteratorNextRewinds(s, h, i) ==
    IF i.bucket < s.count
    THEN IF i.element # NULL
         THEN [it |-> [i EXCEPT !.element = h[i.element].next],
               ret |-> h[i.element].element]
         ELSE IF i.bucket + 1 = s.count
              THEN [it |-> [bucket |-> 0, element |-> s.elements[0]],
                    ret |-> NULL]
              ELSE HashSetIteratorNextRewinds(s, h,
                       [bucket |-> i.bucket + 1,
                        element |-> s.elements[i.bucket + 1]])
    ELSE [it |-> i, ret |-> NULL]

\* HashSetIteratorNext that ends the iteration at the first empty bucket.
HashSetIteratorNextStopAtEmpty(s, h, i) ==
    IF i.bucket < s.count /\ i.element # NULL
    THEN [it |-> [i EXCEPT !.element = h[i.element].next],
          ret |-> h[i.element].element]
    ELSE [it |-> [i EXCEPT !.bucket = s.count], ret |-> NULL]

\* HashSetIteratorNext: the iterator afterwards and the value returned.
HashSetIteratorNext(s, h, i) ==
    IF i.bucket < s.count
    THEN IF i.element # NULL
         THEN [it |-> [i EXCEPT !.element = h[i.element].next],
               ret |-> h[i.element].element]
         ELSE IF i.bucket + 1 = s.count
              THEN [it |-> [i EXCEPT !.bucket = i.bucket + 1], ret |-> NULL]
              ELSE HashSetIteratorNext(s, h,
                       [bucket |-> i.bucket + 1,
                        element |-> s.elements[i.bucket + 1]])
    ELSE [it |-> i, ret |-> NULL]

\* ---- the nodes a call visits ----

\* What a walk that has not come to its end after MaxNodes nodes is cut off
\* with: it has come back to a node it has visited and goes on for ever.
Unfinished == MaxNodes + 1

\* The nodes the loop `for (es = head; es; es = es->next)` dereferences when
\* it leaves at the node that compares equal to element: the loop of
\* HashSetGet and HashSetRemove, and that of HashSetAdd, which leaves at the
\* match or at the tail.
RECURSIVE WalkVisits(_, _, _, _, _)
WalkVisits(s, h, es, element, fuel) ==
    IF es = NULL THEN <<>>
    ELSE IF fuel = 0 THEN <<Unfinished>>
    ELSE IF CallComparator(s, h[es].element, element) = 0 THEN <<es>>
    ELSE <<es>> \o WalkVisits(s, h, h[es].next, element, fuel - 1)

\* The nodes HashSetDelete dereferences.
DeleteVisits(s, h) ==
    LET ev == HashSetDeleteEvents(s, h)
    IN  SelectSeq([i \in 1..Len(ev) |-> IF ev[i].op = "read" THEN ev[i].node
                                         ELSE NULL],
                  LAMBDA n : n # NULL)

\* A HashSetGet that looks for the element in the chain of every bucket.
GetVisitsEveryBucket(s, h, element) ==
    DeleteVisits(s, h)

GetVisits(s, h, element) ==
    WalkVisits(s, h, s.elements[CallHasher(s, element) % s.count], element,
               MaxNodes)

AddVisits(s, h, element) ==
    WalkVisits(s, h, s.elements[CallHasher(s, element) % s.count], element,
               MaxNodes)

RemoveVisits(s, h, element) ==
    WalkVisits(s, h, s.elements[CallHasher(s, element) % s.count], element,
               MaxNodes)

\* The nodes HashSetIteratorNext dereferences: the one under the cursor, once
\* the empty buckets before it are passed.
RECURSIVE IteratorNextVisits(_, _, _)
IteratorNextVisits(s, h, i) ==
    IF i.bucket < s.count
    THEN IF i.element # NULL THEN <<i.element>>
         ELSE IF i.bucket + 1 = s.count THEN <<>>
         ELSE IteratorNextVisits(s, h, [bucket |-> i.bucket + 1,
                                        element |-> s.elements[i.bucket + 1]])
    ELSE <<>>

\* ---- the bucket-array indexes a call uses ----

\* The indexes i of the accesses set->elements[i] that HashSetAdd makes, in
\* order: the read of the head and, when the head is NULL, the write of the
\* new node's address and the two reads that initialise the node.
AddIndexes(s, h, element) ==
    LET hash == CallHasher(s, element) % s.count
    IN  IF s.elements[hash] = NULL THEN <<hash, hash, hash, hash>>
        ELSE <<hash>>

\* HashSetGet reads the head of one bucket.
GetIndexes(s, h, element) ==
    LET hash == CallHasher(s, element) % s.count
    IN  <<hash>>

\* HashSetRemove reads the head of one bucket and writes it when the head is
\* the matching node.
RemoveIndexes(s, h, element) ==
    LET hash == CallHasher(s, element) % s.count
        w == RemoveWalk(s, h, s.elements[hash], NULL, element)
    IN  IF w.es # NULL /\ w.previous = NULL THEN <<hash, hash>> ELSE <<hash>>

\* The outer loop of HashSetDelete from i on: it reads set->elements[i] while
\* i < set->count.
RECURSIVE DeleteIndexesFrom(_, _)
DeleteIndexesFrom(s, i) ==
    IF i < s.count THEN <<i>> \o DeleteIndexesFrom(s, i + 1) ELSE <<>>

DeleteIndexes(s) == DeleteIndexesFrom(s, 0)

\* HashSetIteratorNew reads set->elements[0].
IteratorNewIndexes(s) == <<0>>

RECURSIVE IteratorNextIndexes(_, _, _)
RECURSIVE IteratorNextIndexesNoBreak(_, _, _)

\* A HashSetIteratorNext without the test `++(i->bucket) == i->set->count`:
\* it reads the head of the bucket it has advanced to before the loop
\* condition is tested again.
IteratorNextIndexesNoBreak(s, h, i) ==
    IF i.bucket < s.count
    THEN IF i.element # NULL THEN <<>>
         ELSE <<i.bucket + 1>>
              \o (IF i.bucket + 1 < s.count
                  THEN IteratorNextIndexesNoBreak(s, h,
                           [bucket |-> i.bucket + 1,
                            element |-> s.elements[i.bucket + 1]])
                  ELSE <<>>)
    ELSE <<>>

\* The indexes HashSetIteratorNext reads: set->elements[i->bucket] after each
\* increment of i->bucket that does not make it equal to set->count.
IteratorNextIndexes(s, h, i) ==
    IF i.bucket < s.count
    THEN IF i.element # NULL THEN <<>>
         ELSE IF i.bucket + 1 = s.count THEN <<>>
         ELSE <<i.bucket + 1>>
              \o IteratorNextIndexes(s, h,
                     [bucket |-> i.bucket + 1,
                      element |-> s.elements[i.bucket + 1]])
    ELSE <<>>

\* ---- the state machine: one table, one iterator, one caller ----

Key(p) == ItemAt(p).index

NoIterator == [bucket |-> 0, element |-> NULL]

\* The threads of the program besides the caller; none is inside a call.
Threads == {1, 2}

NoThreads == <<>>

\* The hasher and the comparator read the key part of their arguments: every
\* object a call may hand to them has to be allocated.
AllLive == items.freed = {}

Call(op, arg, ret, hit) == [op |-> op, arg |-> arg, ret |-> ret, hit |-> hit]

Init ==
    \E n \in 1..MaxCount :
        /\ set = HashSetNew(n, "ItemHash", "ItemCompare")
        /\ heap = [x \in Nodes |-> FreeNode]
        /\ allocated = {}
        /\ arrayLive = TRUE
        /\ it = NoIterator
        /\ itState = "none"
        /\ yielded = <<>>
        /\ model = [k \in Keys |-> NULL]
        /\ everAdded = {}
        /\ items = InitItems
        /\ threads = NoThreads
        /\ last = Call("New", n, NULL, FALSE)

\* HashSet set = HashSetNew(MaxCount, hasher, ItemCompare) for any of the
\* hashers: tables of one size that differ in their hasher only.
InitHasher ==
    \E n \in {MaxCount}, hasher \in Hashers :
        /\ set = HashSetNew(n, hasher, "ItemCompare")
        /\ heap = [x \in Nodes |-> FreeNode]
        /\ allocated = {}
        /\ arrayLive = TRUE
        /\ it = NoIterator
        /\ itState = "none"
        /\ yielded = <<>>
        /\ model = [k \in Keys |-> NULL]
        /\ everAdded = {}
        /\ items = InitItems
        /\ threads = NoThreads
        /\ last = Call("New", n, NULL, FALSE)

\* HashSet set = HashSetNew(n, ItemHash, ItemCompare), once the previous
\* table has been deleted.
New(n) ==
    /\ ~arrayLive
    /\ set' = HashSetNew(n, "ItemHash", "ItemCompare")
    /\ arrayLive' = TRUE
    /\ last' = Call("New", n, NULL, FALSE)
    /\ UNCHANGED <<heap, allocated, it, itState, yielded, model, everAdded>>
    /\ UNCHANGED <<items, threads>>

\* HashSetAdd(&set, element).  The caller keeps no iterator across a call
\* that changes the table's structure (as in test.c).  malloc returns any
\* address that is not allocated; when there is none the process dies (NULL
\* is dereferenced).
Add(element) ==
    /\ arrayLive
    /\ AllLive
    /\ \E n \in (IF AddAllocates(set, heap, element)
                 THEN Nodes \ allocated ELSE {NULL}) :
          LET r == HashSetAdd(set, heap, allocated, element, n)
          IN  /\ set' = r.set
              /\ heap' = r.heap
              /\ allocated' = r.allocated
    /\ it' = NoIterator
    /\ itState' = "none"
    /\ yielded' = <<>>
    /\ model' = [model EXCEPT ![Key(element)] = element]
    /\ everAdded' = everAdded \cup {Key(element)}
    /\ last' = Call("Add", Key(element), NULL, model[Key(element)] # NULL)
    /\ UNCHANGED arrayLive
    /\ UNCHANGED <<items, threads>>

\* A HashSetRemove that frees the element of the node it unlinks.
RemoveFreesElement(element) ==
    /\ arrayLive
    /\ AllLive
    /\ LET r == HashSetRemove(set, heap, allocated, element)
       IN  /\ set' = r.set
           /\ heap' = r.heap
           /\ allocated' = r.allocated
    /\ it' = NoIterator
    /\ itState' = "none"
    /\ yielded' = <<>>
    /\ model' = [model EXCEPT ![Key(element)] = NULL]
    /\ last' = Call("Remove", Key(element), NULL, model[Key(element)] # NULL)
    /\ items' = [items EXCEPT
                    !.freed = @ \cup ({HashSetGet(set, heap, element)} \ {NULL})]
    /\ UNCHANGED <<arrayLive, everAdded, threads>>

\* HashSetRemove(&set, element)
Remove(element) ==
    /\ arrayLive
    /\ AllLive
    /\ LET r == HashSetRemove(set, heap, allocated, element)
       IN  /\ set' = r.set
           /\ heap' = r.heap
           /\ allocated' = r.allocated
    /\ it' = NoIterator
    /\ itState' = "none"
    /\ yielded' = <<>>
    /\ model' = [model EXCEPT ![Key(element)] = NULL]
    /\ last' = Call("Remove", Key(element), NULL, model[Key(element)] # NULL)
    /\ UNCHANGED <<arrayLive, everAdded>>
    /\ UNCHANGED <<items, threads>>

\* A HashSetGet that, like HashSetAdd, stores the probe in the matching node.
GetStoresProbe(element) ==
    /\ arrayLive
    /\ AllLive
    /\ last' = Call("Get", Key(element), HashSetGet(set, heap, element),
                    model[Key(element)] # NULL)
    /\ heap' = IF HashSetGet(set, heap, element) # NULL
               THEN HashSetAdd(set, heap, allocated, element, NULL).heap
               ELSE heap
    /\ UNCHANGED <<set, allocated, arrayLive, it, itState, yielded, model,
                   everAdded>>
    /\ UNCHANGED <<items, threads>>

\* HashSetGet(&set, element)
Get(element) ==
    /\ arrayLive
    /\ AllLive
    /\ last' = Call("Get", Key(element), HashSetGet(set, heap, element),
                    model[Key(element)] # NULL)
    /\ UNCHANGED <<set, heap, allocated, arrayLive, it, itState, yielded,
                   model, everAdded>>
    /\ UNCHANGED <<items, threads>>

\* HashSetContains(&set, element); the bool returned is recorded as 1 or 0.
Contains(element) ==
    /\ arrayLive
    /\ AllLive
    /\ last' = Call("Contains", Key(element),
                    IF HashSetContains(set, heap, element) THEN 1 ELSE 0,
                    model[Key(element)] # NULL)
    /\ UNCHANGED <<set, heap, allocated, arrayLive, it, itState, yielded,
                   model, everAdded>>
    /\ UNCHANGED <<items, threads>>

\* HashSetDelete(&set).  The bucket array is freed with the nodes; the struct
\* keeps a dangling pointer, and the caller does not use the table again.
Delete ==
    /\ arrayLive
    /\ LET r == HashSetDelete(set, heap, allocated)
       IN  /\ set' = r.set
           /\ heap' = r.heap
           /\ allocated' = r.allocated
    /\ arrayLive' = FALSE
    /\ it' = NoIterator
    /\ itState' = "none"
    /\ yielded' = <<>>
    /\ model' = [k \in Keys |-> NULL]
    /\ everAdded' = {}
    /\ last' = Call("Delete", Cardinality(allocated), NULL, FALSE)
    /\ UNCHANGED <<items, threads>>

\* HashSetIterator it = HashSetIteratorNew(&set)
IteratorNew ==
    /\ arrayLive
    /\ it' = HashSetIteratorNew(set)
    /\ itState' = "fresh"
    /\ yielded' = <<>>
    /\ last' = Call("IteratorNew", NULL, NULL, FALSE)
    /\ UNCHANGED <<set, heap, allocated, arrayLive, model, everAdded>>
    /\ UNCHANGED <<items, threads>>

\* The iterator's cursor is the address of a node that has been freed: the
\* next HashSetIteratorNext reads e->next and e->element from freed memory.
Dangling ==
    /\ itState \in {"fresh", "stale"}
    /\ it.bucket < set.count
    /\ it.element # NULL
    /\ it.element \notin allocated

\* A HashSetIteratorNext that dereferences the elements it has returned: once
\* the caller has freed one of them the read is undefined, and here the call
\* returns NULL.
IteratorNextReadsYielded ==
    /\ arrayLive
    /\ itState \in {"fresh", "stale"}
    /\ ~Dangling
    /\ LET r == IF \E i \in 1..Len(yielded) : yielded[i] \in items.freed
                THEN [it |-> it, ret |-> NULL]
                ELSE HashSetIteratorNext(set, heap, it)
       IN  /\ it' = r.it
           /\ yielded' = IF r.ret # NULL THEN Append(yielded, r.ret)
                         ELSE yielded
           /\ last' = Call("IteratorNext", NULL, r.ret, FALSE)
    /\ UNCHANGED <<set, heap, allocated, arrayLive, itState, model, everAdded>>
    /\ UNCHANGED <<items, threads>>

\* HashSetIteratorNext(&it); the history records whether the call before it
\* was a HashSetIteratorNext that returned NULL.
IteratorNext ==
    /\ arrayLive
    /\ itState \in {"fresh", "stale"}
    /\ ~Dangling
    /\ LET r == HashSetIteratorNext(set, heap, it)
       IN  /\ it' = r.it
           /\ yielded' = IF r.ret # NULL THEN Append(yielded, r.ret)
                         ELSE yielded
           /\ last' = Call("IteratorNext", NULL, r.ret,
                           last.op = "IteratorNext" /\ last.ret = NULL)
    /\ UNCHANGED <<set, heap, allocated, arrayLive, itState, model, everAdded>>
    /\ UNCHANGED <<items, threads>>

\* A HashSetRemove that moves an iterator off the node it frees.
RemoveRepairsIterator(element) ==
    /\ arrayLive
    /\ AllLive
    /\ itState = "fresh"
    /\ LET r == HashSetRemove(set, heap, allocated, element)
       IN  /\ set' = r.set
           /\ heap' = r.heap
           /\ allocated' = r.allocated
           /\ it' = IF it.element \in allocated \ r.allocated
                    THEN [it EXCEPT !.element = heap[it.element].next]
                    ELSE it
    /\ itState' = "stale"
    /\ model' = [model EXCEPT ![Key(element)] = NULL]
    /\ last' = Call("Remove", Key(element), NULL, model[Key(element)] # NULL)
    /\ UNCHANGED <<arrayLive, yielded, everAdded, items, threads>>

\* HashSetRemove(&set, element) by a caller that goes on using its iterator,
\* once in its loop: the call does not know of the iterator and leaves it as
\* it is.
RemoveUnderIterator(element) ==
    /\ arrayLive
    /\ AllLive
    /\ itState = "fresh"
    /\ LET r == HashSetRemove(set, heap, allocated, element)
       IN  /\ set' = r.set
           /\ heap' = r.heap
           /\ allocated' = r.allocated
    /\ itState' = "stale"
    /\ model' = [model EXCEPT ![Key(element)] = NULL]
    /\ last' = Call("Remove", Key(element), NULL, model[Key(element)] # NULL)
    /\ UNCHANGED <<arrayLive, it, yielded, everAdded, items, threads>>

\* HashSetIteratorNext(&it) on a cursor that dangles.  The reads of e->next
\* and e->element are undefined: the call may return any pointer and leave
\* any pointer in the cursor.  What the program does after the read is not
\* defined and is not followed.
IteratorNextDangling ==
    /\ arrayLive
    /\ itState \in {"fresh", "stale"}
    /\ Dangling
    /\ \E ret \in ElemPtrs \cup {NULL} :
          last' = Call("IteratorNext", it.element, ret, FALSE)
    /\ it' = NoIterator
    /\ itState' = "undefined"
    /\ yielded' = <<>>
    /\ UNCHANGED <<set, heap, allocated, arrayLive, model, everAdded>>
    /\ UNCHANGED <<items, threads>>

\* ---- HashSetAdd on two threads, one step for each access to the table ----

\* Thread t is at position pc.  Besides its position and the locals of
\* HashSetAdd a thread keeps, as history, the first link it read as NULL:
\* branch is "head" for the bucket head and "tail" for the next field of the
\* node `link`.
At(t, pc) == t \in DOMAIN threads /\ threads[t].pc = pc

\* Lines 32-34: the hash, the read of the bucket head and the test of it.
ThreadCall(t, element) ==
    /\ arrayLive
    /\ AllLive
    /\ t \notin DOMAIN threads
    /\ LET hash == CallHasher(set, element) % set.count
           es == set.elements[hash]
       IN  threads' = threads @@
              (t :> [pc |-> IF es = NULL THEN "head_malloc" ELSE "compare",
                     element |-> element,
                     hash |-> hash,
                     es |-> es,
                     node |-> NULL,
                     branch |-> IF es = NULL THEN "head" ELSE "walk",
                     link |-> NULL])
    /\ last' = Call("ThreadAdd", Key(element), NULL, FALSE)
    /\ UNCHANGED <<set, heap, allocated, arrayLive, it, itState, yielded,
                   model, everAdded, items>>

\* Line 35: set->elements[hash] = malloc(...).
ThreadHeadMalloc(t) ==
    /\ At(t, "head_malloc")
    /\ \E n \in Nodes \ allocated :
          /\ set' = [set EXCEPT !.elements[threads[t].hash] = n]
          /\ heap' = [heap EXCEPT ![n] = UninitNode]
          /\ allocated' = allocated \cup {n}
          /\ threads' = [threads EXCEPT ![t].pc = "head_element",
                                        ![t].node = n]
    /\ UNCHANGED <<arrayLive, it, itState, yielded, model, everAdded, items,
                   last>>

\* Line 36: set->elements[hash]->element = element.  The head is read again
\* from the table or kept in a register, as the compiler chooses.
ThreadHeadElement(t) ==
    /\ At(t, "head_element")
    /\ \E m \in {threads[t].node, set.elements[threads[t].hash]} :
          heap' = [heap EXCEPT ![m].element = threads[t].element]
    /\ threads' = [threads EXCEPT ![t].pc = "head_next"]
    /\ UNCHANGED <<set, allocated, arrayLive, it, itState, yielded, model,
                   everAdded, items, last>>

\* Line 37: set->elements[hash]->next = NULL; return.
ThreadHeadNext(t) ==
    /\ At(t, "head_next")
    /\ \E m \in {threads[t].node, set.elements[threads[t].hash]} :
          heap' = [heap EXCEPT ![m].next = NULL]
    /\ threads' = [threads EXCEPT ![t].pc = "done"]
    /\ UNCHANGED <<set, allocated, arrayLive, it, itState, yielded, model,
                   everAdded, items, last>>

\* Line 41: the comparator on es->element.  A field another thread has not
\* written yet holds no pointer: what the comparator does with it is not
\* defined, and the thread is not followed further.
ThreadCompare(t) ==
    /\ At(t, "compare")
    /\ threads' = [threads EXCEPT ![t].pc =
          IF heap[threads[t].es].element = Uninit THEN "undefined"
          ELSE IF CallComparator(set, heap[threads[t].es].element,
                                 threads[t].element) = 0
          THEN "update"
          ELSE "check_next"]
    /\ UNCHANGED <<set, heap, allocated, arrayLive, it, itState, yielded,
                   model, everAdded, items, last>>

\* Line 42: es->element = element; return.
ThreadUpdate(t) ==
    /\ At(t, "update")
    /\ heap' = [heap EXCEPT ![threads[t].es].element = threads[t].element]
    /\ threads' = [threads EXCEPT ![t].pc = "done", ![t].branch = "update"]
    /\ UNCHANGED <<set, allocated, arrayLive, it, itState, yielded, model,
                   everAdded, items, last>>

\* Lines 45 and 51: the read of es->next, and es = es->next when it is not
\* NULL.
ThreadCheckNext(t) ==
    /\ At(t, "check_next")
    /\ LET next == heap[threads[t].es].next
       IN  threads' =
              IF next = Uninit THEN [threads EXCEPT ![t].pc = "undefined"]
              ELSE IF next = NULL
              THEN [threads EXCEPT
                      ![t].pc = "tail_malloc",
                      ![t].branch = IF @ = "walk" THEN "tail" ELSE @,
                      ![t].link = IF threads[t].branch = "walk"
                                  THEN threads[t].es ELSE @]
              ELSE [threads EXCEPT ![t].pc = "compare", ![t].es = next]
    /\ UNCHANGED <<set, heap, allocated, arrayLive, it, itState, yielded,
                   model, everAdded, items, last>>

\* Line 46 done as a compare-and-swap: the new node is linked only if
\* es->next is still NULL, and the walk goes on otherwise.
ThreadTailMallocIfNull(t) ==
    /\ At(t, "tail_malloc")
    /\ IF heap[threads[t].es].next = NULL
       THEN \E n \in Nodes \ allocated :
               /\ heap' = [heap EXCEPT ![threads[t].es].next = n,
                                       ![n] = UninitNode]
               /\ allocated' = allocated \cup {n}
               /\ threads' = [threads EXCEPT ![t].pc = "tail_element",
                                             ![t].node = n]
       ELSE /\ threads' = [threads EXCEPT ![t].pc = "check_next"]
            /\ UNCHANGED <<heap, allocated>>
    /\ UNCHANGED <<set, arrayLive, it, itState, yielded, model, everAdded,
                   items, last>>

\* Line 46: es->next = malloc(...).
ThreadTailMalloc(t) ==
    /\ At(t, "tail_malloc")
    /\ \E n \in Nodes \ allocated :
          /\ heap' = [heap EXCEPT ![threads[t].es].next = n,
                                  ![n] = UninitNode]
          /\ allocated' = allocated \cup {n}
          /\ threads' = [threads EXCEPT ![t].pc = "tail_element",
                                        ![t].node = n]
    /\ UNCHANGED <<set, arrayLive, it, itState, yielded, model, everAdded,
                   items, last>>

\* Line 47: es->next->element = element, es->next read again or kept.
ThreadTailElement(t) ==
    /\ At(t, "tail_element")
    /\ \E m \in {threads[t].node, heap[threads[t].es].next} :
          heap' = [heap EXCEPT ![m].element = threads[t].element]
    /\ threads' = [threads EXCEPT ![t].pc = "tail_next"]
    /\ UNCHANGED <<set, allocated, arrayLive, it, itState, yielded, model,
                   everAdded, items, last>>

\* Line 48: es->next->next = NULL; return.
ThreadTailNext(t) ==
    /\ At(t, "tail_next")
    /\ \E m \in {threads[t].node, heap[threads[t].es].next} :
          heap' = [heap EXCEPT ![m].next = NULL]
    /\ threads' = [threads EXCEPT ![t].pc = "done"]
    /\ UNCHANGED <<set, allocated, arrayLive, it, itState, yielded, model,
                   everAdded, items, last>>

\* The caller overwrites the value part of the element the iterator has just
\* given it (got->value = "goat" in test.c).
WriteYielded(p) ==
    /\ arrayLive
    /\ itState = "fresh"
    /\ yielded # <<>>
    /\ yielded[Len(yielded)] = p
    /\ p \notin items.freed \cup items.written
    /\ items' = [items EXCEPT !.written = @ \cup {p}]
    /\ last' = Call("Write", Key(p), NULL, model[Key(p)] # NULL)
    /\ UNCHANGED <<set, heap, allocated, arrayLive, it, itState, yielded,
                   model, everAdded, threads>>

\* The caller frees the element the iterator has just given it, inside the
\* loop over the iterator (free(id), free(w), free(sc) in test.c).
FreeYielded(p) ==
    /\ arrayLive
    /\ itState = "fresh"
    /\ yielded # <<>>
    /\ yielded[Len(yielded)] = p
    /\ p \notin items.freed
    /\ items' = [freed |-> items.freed \cup {p},
                 written |-> items.written \ {p}]
    /\ last' = Call("Free", Key(p), NULL, model[Key(p)] # NULL)
    /\ UNCHANGED <<set, heap, allocated, arrayLive, it, itState, yielded,
                   model, everAdded, threads>>

\* The caller fills the table with objects it has just made, before it
\* iterates over them.
Fill(element) ==
    /\ items = InitItems
    /\ Add(element)

\* The caller starts its one loop over the table it has filled.
Begin ==
    /\ items = InitItems
    /\ IteratorNew

\* The caller allocates its objects anew (CopyNew) for the next table.
MakeItems ==
    /\ ~arrayLive
    /\ items # InitItems
    /\ items' = InitItems
    /\ last' = Call("MakeItems", NULL, NULL, FALSE)
    /\ UNCHANGED <<set, heap, allocated, arrayLive, it, itState, yielded,
                   model, everAdded, threads>>

Next ==
    \/ \E n \in 1..MaxCount : New(n)
    \/ \E e \in ElemPtrs : Add(e)
    \/ \E e \in ElemPtrs : Remove(e)
    \/ \E e \in ElemPtrs : Get(e)
    \/ \E e \in ElemPtrs : Contains(e)
    \/ Delete
    \/ IteratorNew
    \/ IteratorNext

Spec == Init /\ [][Next]_vars

\* Building and changing a table: the calls that write to it.
NextTable ==
    \/ \E n \in 1..MaxCount : New(n)
    \/ \E e \in ElemPtrs : Add(e)
    \/ \E e \in ElemPtrs : Remove(e)
    \/ Delete

SpecTable == Init /\ [][NextTable]_vars

\* Changing a table and looking elements up in it: the calls that take no
\* iterator.
NextLookup ==
    \/ \E n \in 1..MaxCount : New(n)
    \/ \E e \in ElemPtrs : Add(e)
    \/ \E e \in ElemPtrs : Remove(e)
    \/ \E e \in ElemPtrs : Get(e)
    \/ \E e \in ElemPtrs : Contains(e)
    \/ Delete

SpecLookup == Init /\ [][NextLookup]_vars

\* Building a table and iterating over it: no lookups in between.
NextIter ==
    \/ \E n \in 1..MaxCount : New(n)
    \/ \E e \in ElemPtrs : Add(e)
    \/ \E e \in ElemPtrs : Remove(e)
    \/ Delete
    \/ IteratorNew
    \/ IteratorNext

SpecIter == Init /\ [][NextIter]_vars

\* Filling a table, then iterating over it while writing to and freeing the
\* elements the iterator has returned (TestAddContains,
\* TestStringHashUniformity).
NextOwner ==
    \/ \E n \in 1..MaxCount : New(n)
    \/ \E e \in ElemPtrs : Fill(e)
    \/ Delete
    \/ Begin
    \/ IteratorNext
    \/ \E p \in ElemPtrs : WriteYielded(p)
    \/ \E p \in ElemPtrs : FreeYielded(p)
    \/ MakeItems

SpecOwner == Init /\ [][NextOwner]_vars

\* One sequence of Add and Remove calls, made on a table with any of the
\* hashers.
NextHasher ==
    \/ \E e \in ElemPtrs : Add(e)
    \/ \E e \in ElemPtrs : Remove(e)

SpecHasher == InitHasher /\ [][NextHasher]_vars

\* The caller fills the table before it takes its iterator.
Build(element) ==
    /\ itState = "none"
    /\ Add(element)

\* The caller takes its one iterator.
Start ==
    /\ itState = "none"
    /\ IteratorNew

\* A caller that removes elements inside its loop over an iterator.
NextStale ==
    \/ \E e \in ElemPtrs : Build(e)
    \/ Start
    \/ IteratorNext
    \/ \E e \in ElemPtrs : RemoveUnderIterator(e)
    \/ IteratorNextDangling

SpecStale == Init /\ [][NextStale]_vars

\* The one HashSetAdd made before the threads start.
Prepare(element) ==
    /\ threads = NoThreads
    /\ allocated = {}
    /\ Add(element)

\* Two threads that each call HashSetAdd once on the same table, with no
\* lock.
NextRace ==
    \/ \E e \in ElemPtrs : Prepare(e)
    \/ \E t \in Threads, e \in ElemPtrs : ThreadCall(t, e)
    \/ \E t \in Threads : ThreadHeadMalloc(t)
    \/ \E t \in Threads : ThreadHeadElement(t)
    \/ \E t \in Threads : ThreadHeadNext(t)
    \/ \E t \in Threads : ThreadCompare(t)
    \/ \E t \in Threads : ThreadUpdate(t)
    \/ \E t \in Threads : ThreadCheckNext(t)
    \/ \E t \in Threads : ThreadTailMalloc(t)
    \/ \E t \in Threads : ThreadTailElement(t)
    \/ \E t \in Threads : ThreadTailNext(t)

SpecRace == Init /\ [][NextRace]_vars

TypeOK ==
    /\ set.count \in 1..MaxCount
    /\ DOMAIN set.elements = 0..(set.count - 1)
    /\ \A i \in DOMAIN set.elements : set.elements[i] \in Nodes \cup {NULL}
    /\ heap \in [Nodes -> [element : ElemPtrs \cup {NULL, Uninit},
                           next : Nodes \cup {NULL, Uninit}]]
    /\ allocated \subseteq Nodes
    /\ arrayLive \in BOOLEAN
    /\ itState \in {"none", "fresh", "stale", "undefined"}
    /\ items \in [freed : SUBSET ElemPtrs, written : SUBSET ElemPtrs]

\* ---- what the properties talk about ----

\* The node addresses of the chain that starts at es, head first.
RECURSIVE ChainFrom(_, _)
ChainFrom(h, es) ==
    IF es = NULL THEN <<>> ELSE <<es>> \o ChainFrom(h, h[es].next)

Chain(b) == ChainFrom(heap, set.elements[b])

Buckets == 0..(set.count - 1)

\* Every (bucket, position) at which the table holds a node.
Positions ==
    {bi \in Buckets \X (1..MaxNodes) : bi[2] <= Len(Chain(bi[1]))}

ElementAt(bi) == heap[Chain(bi[1])[bi[2]]].element

\* The elements a caller gets by calling HashSetIteratorNext on iterator i
\* until it returns NULL.
RECURSIVE Drain(_, _, _)
DrainFrom(s, h, r) ==
    IF r.ret = NULL THEN <<>> ELSE <<r.ret>> \o Drain(s, h, r.it)

Drain(s, h, i) == DrainFrom(s, h, HashSetIteratorNext(s, h, i))

IterateAll == Drain(set, heap, HashSetIteratorNew(set))

Range(seq) == {seq[i] : i \in 1..Len(seq)}

NoRepeats(seq) == \A i, j \in 1..Len(seq) : i # j => seq[i] # seq[j]

\* The current membership according to the history of Add and Remove calls.
LiveKeys == {k \in Keys : model[k] # NULL}

Members == {model[k] : k \in LiveKeys}

Probes(k) == {p \in ElemPtrs : Key(p) = k}

HashOf(p) == CallHasher(set, p) % set.count

\* ---- C1 ----
\* C1: in every reachable state no two nodes of the table hold elements whose
\* keys compare equal: an Add of a present key replaces, it never duplicates.
Uniqueness ==
    arrayLive =>
        \A p, q \in Positions :
            p # q => CallComparator(set, ElementAt(p), ElementAt(q)) # 0

\* A replacing Add has happened in a bucket that holds a chain of two or more.
UniquenessWitness ==
    /\ arrayLive
    /\ last.op = "Add"
    /\ last.hit
    /\ Len(Chain(HashOf(model[last.arg]))) >= 2

\* ---- C2 ----
\* C2: for every key whose latest Add has not been followed by a Remove,
\* HashSetGet with any probe of that key returns the very reference that Add
\* was given; and a Get call that was made returned it.
RoundTrip ==
    arrayLive =>
        /\ \A k \in LiveKeys :
              \A p \in Probes(k) : HashSetGet(set, heap, p) = model[k]
        /\ (last.op = "Get" /\ last.hit) => last.ret = model[last.arg]

\* A Get found, at the second place of a chain, the element of a key that
\* has a second object (a probe that is not the stored element).
RoundTripWitness ==
    /\ arrayLive
    /\ last.op = "Get"
    /\ last.hit
    /\ last.ret # NULL
    /\ Probes(last.arg) # {last.ret}
    /\ Len(Chain(HashOf(last.ret))) >= 2
    /\ ElementAt(<<HashOf(last.ret), 2>>) = last.ret

\* ---- C3 ----
\* C3: right after HashSetRemove of key k, Contains is false for every probe
\* of key k, a full iteration yields no element of key k, and when no key is
\* live any more a full iteration yields nothing.
RemovalComplete ==
    (arrayLive /\ last.op = "Remove") =>
        /\ \A p \in Probes(last.arg) : ~HashSetContains(set, heap, p)
        /\ \A e \in Range(IterateAll) : Key(e) # last.arg
        /\ (LiveKeys = {} => IterateAll = <<>>)

\* A present key was removed from a chain of three (so head, middle and tail
\* removals all lead to such states).
RemovalCompleteWitness ==
    /\ arrayLive
    /\ last.op = "Remove"
    /\ last.hit
    /\ \A p \in Probes(last.arg) : Len(Chain(HashOf(p))) = 2

\* ---- C4 ----
\* C4: for every probe whose key was never added to this table, HashSetGet
\* returns NULL and HashSetContains returns false, whatever else is stored.
AbsenceCorrect ==
    arrayLive =>
        /\ \A p \in ElemPtrs :
              Key(p) \notin everAdded =>
                  /\ HashSetGet(set, heap, p) = NULL
                  /\ ~HashSetContains(set, heap, p)
        /\ (last.op \in {"Get", "Contains"} /\ last.arg \notin everAdded)
              => last.ret = 0

\* Contains was asked for a never-added key whose bucket holds other keys.
AbsenceCorrectWitness ==
    /\ arrayLive
    /\ last.op = "Contains"
    /\ last.arg \notin everAdded
    /\ \A p \in Probes(last.arg) : set.elements[HashOf(p)] # NULL
    /\ last.ret = 0

\* ---- C5 ----
\* C5: a fresh iterator, advanced with no Add or Remove in between, yields
\* before its first NULL exactly the stored element references, each once:
\* as many as there are live keys.
IterationExact ==
    arrayLive =>
        /\ NoRepeats(IterateAll)
        /\ Range(IterateAll) = Members
        /\ Len(IterateAll) = Cardinality(LiveKeys)
        /\ itState = "fresh" => /\ NoRepeats(yielded)
                                /\ Range(yielded) \subseteq Members
        /\ (itState = "fresh" /\ last.op = "IteratorNext" /\ last.ret = NULL)
              => /\ Range(yielded) = Members
                 /\ Len(yielded) = Cardinality(LiveKeys)

\* An iteration over three stored elements in two buckets has ended.
IterationExactWitness ==
    /\ arrayLive
    /\ itState = "fresh"
    /\ last.op = "IteratorNext"
    /\ last.ret = NULL
    /\ Len(yielded) = 3
    /\ set.count = 2

\* ---- C6 ----
\* The number of nodes the table holds.
NodeCount == Cardinality(Positions)

\* C6: an Add of a key that is already stored changes the element field of
\* one node, the node that held the equal key, and nothing else: no node is
\* allocated, no link, no bucket head and no other node changes, and a full
\* iteration is as long as before.
UpdateInPlace ==
    [][(arrayLive /\ last'.op = "Add" /\ model[last'.arg] # NULL) =>
          /\ set' = set
          /\ allocated' = allocated
          /\ \E n \in allocated :
                /\ CallComparator(set, heap[n].element, model'[last'.arg]) = 0
                /\ heap' = [heap EXCEPT ![n].element = model'[last'.arg]]
          /\ Len(Drain(set', heap', HashSetIteratorNew(set')))
                = Len(IterateAll)]_vars

\* A stored key was added again with another element, at a node that has a
\* successor in its chain.
UpdateInPlaceWitness ==
    /\ arrayLive
    /\ last.op = "Add"
    /\ last.hit
    /\ \E n \in allocated :
          heap[n].element = model[last.arg] /\ heap[n].next # NULL

\* ---- C7 ----
\* C7: a Remove of a key that is not stored leaves the table as it was:
\* the struct, every node and link, and the set of allocated nodes.
RemoveAbsentNoOp ==
    [][(arrayLive /\ last'.op = "Remove" /\ model[last'.arg] = NULL) =>
          /\ set' = set
          /\ heap' = heap
          /\ allocated' = allocated]_vars

\* An absent key was removed from a bucket whose chain is not empty.
RemoveAbsentNoOpWitness ==
    /\ arrayLive
    /\ last.op = "Remove"
    /\ ~last.hit
    /\ \A p \in Probes(last.arg) : set.elements[HashOf(p)] # NULL

\* ---- C8 ----
\* C8: HashSetGet and HashSetContains leave the table as it was, match or no
\* match: count, bucket heads, nodes, links and stored references.
LookupReadOnly ==
    [][(last'.op \in {"Get", "Contains"}) =>
          /\ set' = set
          /\ heap' = heap
          /\ allocated' = allocated
          /\ arrayLive' = arrayLive]_vars

\* A Get found its key in a chain of two or more nodes.
LookupReadOnlyWitness ==
    /\ arrayLive
    /\ last.op = "Get"
    /\ last.ret # NULL
    /\ Len(Chain(HashOf(last.ret))) >= 2

\* ---- C9 ----
\* C9: every node of the chain of bucket b holds an element that hashes to b,
\* and every stored element is in the chain of its own bucket.
BucketPlacement ==
    arrayLive =>
        /\ \A bi \in Positions : HashOf(ElementAt(bi)) = bi[1]
        /\ \A e \in Members :
              \E bi \in Positions : bi[1] = HashOf(e) /\ ElementAt(bi) = e

\* Both of two buckets hold an element after a Remove has taken one of two
\* colliding keys out of bucket 0.
BucketPlacementWitness ==
    /\ arrayLive
    /\ set.count = 2
    /\ last.op = "Remove"
    /\ last.hit
    /\ \A p \in Probes(last.arg) : HashOf(p) = 0
    /\ Len(Chain(0)) = 1
    /\ Len(Chain(1)) = 1

\* ---- C10 ----
\* C10: right after HashSetNew(n, ...) the count is n, each of the n bucket
\* heads is NULL, HashSetGet finds nothing and a new iterator's first
\* HashSetIteratorNext returns NULL.
FreshTableEmpty ==
    last.op = "New" =>
        /\ set.count = last.arg
        /\ DOMAIN set.elements = 0..(last.arg - 1)
        /\ \A i \in DOMAIN set.elements : set.elements[i] = NULL
        /\ \A p \in ElemPtrs : HashSetGet(set, heap, p) = NULL
        /\ HashSetIteratorNext(set, heap, HashSetIteratorNew(set)).ret = NULL

\* A table of two buckets has just been made and no node is allocated.
FreshTableEmptyWitness ==
    /\ last.op = "New"
    /\ last.arg = 2
    /\ arrayLive
    /\ allocated = {}


\* ---- C11 ----
\* The positions of the accesses of kind op to node n among the events ev.
EventsAt(ev, op, n) == {i \in 1..Len(ev) : ev[i].op = op /\ ev[i].node = n}

\* C11: HashSetDelete, called in any reachable state, frees every allocated
\* node exactly once and no other node, reads no node after it has freed it,
\* and frees the bucket array once, as its last access; after the call no node
\* is allocated and the bucket array is gone.
DeleteFreesAll ==
    /\ arrayLive =>
          LET ev == HashSetDeleteEvents(set, heap)
          IN  /\ \A n \in allocated : Cardinality(EventsAt(ev, "free", n)) = 1
              /\ \A n \in Nodes \ allocated : EventsAt(ev, "free", n) = {}
              /\ \A n \in Nodes :
                    \A i \in EventsAt(ev, "free", n) :
                        \A j \in EventsAt(ev, "read", n) : j < i
              /\ EventsAt(ev, "freeArray", NULL) = {Len(ev)}
              /\ HashSetDelete(set, heap, allocated).allocated = {}
    /\ last.op = "Delete" => (allocated = {} /\ ~arrayLive)

\* HashSetDelete has freed a table of two buckets that held three nodes.
DeleteFreesAllWitness ==
    /\ last.op = "Delete"
    /\ last.arg = 3
    /\ set.count = 2
    /\ ~arrayLive


\* ---- C12 ----
\* The calls into hashset.c.
TableOps ==
    {"New", "Add", "Remove", "Get", "Contains", "Delete", "IteratorNew",
     "IteratorNext"}

\* C12: no call into the table frees or writes to an element: across every
\* call each of the caller's objects stays allocated and keeps its content,
\* the object a replacing HashSetAdd dislodges, the object HashSetRemove
\* unlinks and the objects stored at HashSetDelete among them.
ElementsUntouched ==
    [][(last'.op \in TableOps) => items' = items]_vars

\* HashSetRemove has unlinked a stored key, and every object of that key is
\* allocated and holds the word it was made with.
ElementsUntouchedWitness ==
    /\ arrayLive
    /\ last.op = "Remove"
    /\ last.hit
    /\ Probes(last.arg) \cap (items.freed \cup items.written) = {}


\* ---- C13 ----
\* C13: while the caller holds an iterator and makes no Add or Remove, whatever
\* it has written to or freed among the elements already returned, the
\* elements returned so far followed by those the remaining calls return are
\* the stored references, each once; and when HashSetIteratorNext returns
\* NULL every stored reference has been returned once.
IterationToleratesWrites ==
    (arrayLive /\ itState = "fresh") =>
        /\ LET all == yielded \o Drain(set, heap, it)
           IN  /\ NoRepeats(all)
               /\ Range(all) = Members
        /\ (last.op = "IteratorNext" /\ last.ret = NULL) =>
              /\ Range(yielded) = Members
              /\ Len(yielded) = Cardinality(LiveKeys)

\* HashSetIteratorNext has returned the third of three stored elements after
\* the caller freed the first and wrote to the second.
IterationToleratesWritesWitness ==
    /\ arrayLive
    /\ itState = "fresh"
    /\ last.op = "IteratorNext"
    /\ last.ret # NULL
    /\ Len(yielded) = 3
    /\ yielded[1] \in items.freed
    /\ yielded[2] \in items.written


\* ---- C14 ----
\* C14: once HashSetIteratorNext has returned NULL, the next call on the same
\* iterator returns NULL too and leaves the iterator as it is, so that every
\* later call returns NULL; a call made after a NULL never returns an
\* element; and the iterator HashSetIteratorNew makes starts the sequence
\* over.
ExhaustedStays ==
    (arrayLive /\ itState = "fresh") =>
        /\ (last.op = "IteratorNext" /\ last.ret = NULL) =>
              /\ HashSetIteratorNext(set, heap, it).ret = NULL
              /\ HashSetIteratorNext(set, heap, it).it = it
        /\ (last.op = "IteratorNext" /\ last.hit) => last.ret = NULL
        /\ last.op = "IteratorNew" =>
              /\ yielded = <<>>
              /\ Range(Drain(set, heap, it)) = Members

\* HashSetIteratorNext was called again on an iterator that had returned two
\* elements and then NULL.
ExhaustedStaysWitness ==
    /\ arrayLive
    /\ itState = "fresh"
    /\ last.op = "IteratorNext"
    /\ last.hit
    /\ Len(yielded) = 2


\* ---- C15 ----
\* C15: whatever the hasher of the table, after every call of a sequence of
\* Add and Remove calls HashSetGet returns, for every probe, the element of
\* the latest Add of the probe's key not removed since (NULL if there is
\* none), HashSetContains tells whether there is one, and a full iteration
\* returns those elements, each once.  The history `model` is a function of
\* the sequence of calls alone: two tables with different hashers driven by
\* the same sequence therefore return the same references and booleans at
\* every step and yield the same set.
HasherIndependent ==
    /\ \A p \in ElemPtrs :
          /\ HashSetGet(set, heap, p) = model[Key(p)]
          /\ HashSetContains(set, heap, p) = (model[Key(p)] # NULL)
    /\ Range(IterateAll) = Members
    /\ Len(IterateAll) = Cardinality(Members)

\* With the hasher that puts every element in one chain, a table of two
\* buckets holds, after a Remove that found its key, two elements in its
\* first bucket and none in its second.
HasherIndependentWitness ==
    /\ set.hasher = "ZeroHash"
    /\ set.count = 2
    /\ last.op = "Remove"
    /\ last.hit
    /\ Len(Chain(0)) = 2
    /\ Len(Chain(1)) = 0


\* ---- C16 ----
\* The nodes visited are nodes of the chain of one bucket.
OneChain(v) == \E b \in Buckets : Range(v) \subseteq Range(Chain(b))

\* The walk came to its end.
Terminates(v) == Unfinished \notin Range(v)

\* The iterator after k calls of HashSetIteratorNext on a new iterator.
RECURSIVE IteratorAfter(_)
IteratorAfter(k) ==
    IF k = 0 THEN HashSetIteratorNew(set)
    ELSE HashSetIteratorNext(set, heap, IteratorAfter(k - 1)).it

\* The walks of HashSetAdd, HashSetGet (HashSetContains is HashSetGet) and
\* HashSetRemove, for every argument, and of HashSetIteratorNext, at every
\* point of an iteration, end and stay in one chain.
LookupsWalkOneChain ==
    /\ \A p \in ElemPtrs :
          /\ Terminates(GetVisits(set, heap, p))
          /\ OneChain(GetVisits(set, heap, p))
          /\ Terminates(AddVisits(set, heap, p))
          /\ OneChain(AddVisits(set, heap, p))
          /\ Terminates(RemoveVisits(set, heap, p))
          /\ OneChain(RemoveVisits(set, heap, p))
    /\ \A k \in 0..(Cardinality(allocated) + 1) :
          /\ Len(IteratorNextVisits(set, heap, IteratorAfter(k))) <= 1
          /\ OneChain(IteratorNextVisits(set, heap, IteratorAfter(k)))

\* C16 as the specification states it: in every reachable state of a live
\* table each of HashSetAdd, HashSetGet, HashSetContains, HashSetRemove,
\* HashSetDelete and HashSetIteratorNext terminates and visits the nodes of
\* no more than one bucket's chain.
EveryCallWalksOneChain ==
    arrayLive =>
        /\ LookupsWalkOneChain
        /\ Terminates(DeleteVisits(set, heap))
        /\ OneChain(DeleteVisits(set, heap))

\* C16, amended: every call terminates; HashSetAdd, HashSetGet,
\* HashSetContains, HashSetRemove and HashSetIteratorNext visit the nodes of
\* no more than one bucket's chain, HashSetIteratorNext no more than one node;
\* HashSetDelete visits every node of every chain, each once.
CallsTerminate ==
    arrayLive =>
        /\ LookupsWalkOneChain
        /\ Terminates(DeleteVisits(set, heap))
        /\ NoRepeats(DeleteVisits(set, heap))
        /\ Range(DeleteVisits(set, heap)) = allocated
        /\ Range(DeleteVisits(set, heap))
              = UNION {Range(Chain(b)) : b \in Buckets}

\* HashSetAdd has walked a chain to its tail and appended a node, in a table
\* of two buckets that now holds a chain of two nodes and a chain of one.
CallsTerminateWitness ==
    /\ arrayLive
    /\ last.op = "Add"
    /\ ~last.hit
    /\ \A p \in Probes(last.arg) : HashOf(p) = 0
    /\ set.count = 2
    /\ Len(Chain(0)) = 2
    /\ Len(Chain(1)) = 1


\* ---- C17 ----
\* The elements of the chains of buckets b, b + 1, ... in that order, each
\* chain from its head to its tail.
RECURSIVE ElementsFromBucket(_)
ElementsFromBucket(b) ==
    IF b >= set.count THEN <<>>
    ELSE [i \in 1..Len(Chain(b)) |-> heap[Chain(b)[i]].element]
         \o ElementsFromBucket(b + 1)

\* C17: a new iterator returns the elements of bucket 0 from head to tail,
\* then those of bucket 1, and so on, passing over empty buckets: at every
\* point of an iteration the elements returned so far are the beginning of
\* that sequence, and no element is returned after an element of a bucket
\* with a higher index.
IterationOrder ==
    arrayLive =>
        /\ IterateAll = ElementsFromBucket(0)
        /\ \A i, j \in 1..Len(IterateAll) :
              i < j => HashOf(IterateAll[i]) <= HashOf(IterateAll[j])
        /\ itState = "fresh" =>
              /\ Len(yielded) <= Len(ElementsFromBucket(0))
              /\ yielded = SubSeq(ElementsFromBucket(0), 1, Len(yielded))

\* An iterator has returned the two elements of bucket 0 and then the one
\* element of bucket 1.
IterationOrderWitness ==
    /\ arrayLive
    /\ itState = "fresh"
    /\ last.op = "IteratorNext"
    /\ last.ret # NULL
    /\ Len(yielded) = 3
    /\ Len(Chain(0)) = 2
    /\ HashOf(yielded[3]) = 1


\* ---- C18 ----
\* The sequence seq without its i-th member.
Without(seq, i) ==
    [j \in 1..(Len(seq) - 1) |-> IF j < i THEN seq[j] ELSE seq[j + 1]]

\* C18: a Remove of a stored key frees one node, the node of its bucket's
\* chain that held the key, and writes one link: the bucket head if the node
\* was first, else the next field of the node before it.  The chain is the
\* old chain without that node, in the old order; every other bucket's head
\* and chain, every other node and every stored reference are as before, and
\* HashSetGet returns for every other key what it returned before.
RemoveUnlinksOne ==
    [][(arrayLive /\ last'.op = "Remove" /\ model[last'.arg] # NULL) =>
          LET b == HashOf(model[last'.arg])
              old == Chain(b)
          IN  \E i \in 1..Len(old) :
                /\ heap[old[i]].element = model[last'.arg]
                /\ allocated' = allocated \ {old[i]}
                /\ ChainFrom(heap', set'.elements[b]) = Without(old, i)
                /\ IF i = 1
                   THEN /\ set' = [set EXCEPT !.elements[b] = heap[old[1]].next]
                        /\ \A n \in allocated' : heap'[n] = heap[n]
                   ELSE /\ set' = set
                        /\ \A n \in allocated' :
                              heap'[n] = IF n = old[i - 1]
                                         THEN [heap[n] EXCEPT
                                                 !.next = heap[old[i]].next]
                                         ELSE heap[n]
                /\ \A c \in Buckets \ {b} :
                      /\ set'.elements[c] = set.elements[c]
                      /\ ChainFrom(heap', set'.elements[c]) = Chain(c)
                /\ \A p \in ElemPtrs :
                      Key(p) # last'.arg =>
                          HashSetGet(set', heap', p) = HashSetGet(set, heap, p)
    ]_vars

\* HashSetRemove has taken one of three nodes out of the chain of a table of
\* one bucket, and two are left.
RemoveUnlinksOneWitness ==
    /\ arrayLive
    /\ last.op = "Remove"
    /\ last.hit
    /\ set.count = 1
    /\ Len(Chain(0)) = 2


\* ---- C19 ----
\* C19: HashSetRemove leaves an iterator the caller holds as it is.  When the
\* node it frees is the node under the iterator's cursor, the cursor holds
\* the address of a freed node afterwards and the next HashSetIteratorNext
\* dereferences that address.
RemoveLeavesCursorDangling ==
    [][(last'.op = "Remove" /\ itState' = "stale") =>
          /\ it' = it
          /\ (/\ it.bucket < set.count
              /\ it.element \in allocated
              /\ heap[it.element].element = model[last'.arg])
                => /\ it'.element \notin allocated'
                   /\ IteratorNextVisits(set', heap', it') = <<it.element>>
    ]_vars

\* HashSetIteratorNext has read a node that a HashSetRemove had freed under
\* the cursor, and has returned a pointer.
RemoveLeavesCursorDanglingWitness ==
    /\ arrayLive
    /\ last.op = "IteratorNext"
    /\ last.arg # NULL
    /\ last.arg \notin allocated
    /\ last.ret # NULL


\* ---- C20 ----
\* The nodes a walk from some bucket head comes to.
Linked == UNION {Range(Chain(b)) : b \in Buckets}

\* Both threads have returned from HashSetAdd, called with different keys of
\* one bucket, and both had read the same link, the bucket head or the next
\* field of the same tail node, as NULL.
BothSawNull(t, u) ==
    /\ At(t, "done")
    /\ At(u, "done")
    /\ Key(threads[t].element) # Key(threads[u].element)
    /\ threads[t].hash = threads[u].hash
    /\ threads[t].branch \in {"head", "tail"}
    /\ threads[t].branch = threads[u].branch
    /\ threads[t].link = threads[u].link

\* C20: when two threads have run HashSetAdd with no lock on different keys of
\* one bucket and both read the bucket head, or the next field of the tail,
\* as NULL before either wrote it, HashSetGet finds the element of one of them
\* and not the element of the other, and one of the two nodes they allocated
\* is not linked into any chain.
RaceLosesElement ==
    \A t, u \in Threads :
        (t # u /\ BothSawNull(t, u)) =>
            /\ \/ /\ HashSetGet(set, heap, threads[t].element)
                        = threads[t].element
                  /\ HashSetGet(set, heap, threads[u].element) = NULL
               \/ /\ HashSetGet(set, heap, threads[u].element)
                        = threads[u].element
                  /\ HashSetGet(set, heap, threads[t].element) = NULL
            /\ Cardinality(allocated \ Linked) = 1

\* Both threads appended to the same tail node: the element of thread 1 is
\* not found and a node is not linked.
RaceLosesElementWitness ==
    /\ BothSawNull(1, 2)
    /\ threads[1].branch = "tail"
    /\ HashSetGet(set, heap, threads[1].element) = NULL
    /\ allocated \ Linked # {}

\* ---- C21 ----
\* The nodes a walk from node es comes to, followed by Unfinished when the
\* walk has not come to NULL after `fuel` nodes.
RECURSIVE ChainWithin(_, _, _)
ChainWithin(h, es, fuel) ==
    IF es = NULL THEN <<>>
    ELSE IF fuel = 0 THEN <<Unfinished>>
    ELSE <<es>> \o ChainWithin(h, h[es].next, fuel - 1)

\* The chain of bucket b, cut off after MaxNodes nodes.
Walk(b) == ChainWithin(heap, set.elements[b], MaxNodes)

Reachable == UNION {Range(Walk(b)) : b \in Buckets}

\* C21: in every state a single caller reaches with HashSetAdd and
\* HashSetRemove, the walk from every bucket head comes to NULL and passes no
\* node twice, no node is in the chains of two buckets, the nodes the walks
\* come to are the allocated nodes, none of them is a freed node, and there
\* are as many allocated nodes as keys stored.
NodeAccounting ==
    /\ \A b \in Buckets :
          /\ Unfinished \notin Range(Walk(b))
          /\ NoRepeats(Walk(b))
    /\ \A b, c \in Buckets : b # c => Range(Walk(b)) \cap Range(Walk(c)) = {}
    /\ Reachable = allocated
    /\ Reachable \cap (Nodes \ allocated) = {}
    /\ Cardinality(allocated) = Cardinality(LiveKeys)

\* HashSetRemove has just freed a node of a table in which a chain of two
\* nodes is left.
NodeAccountingWitness ==
    /\ last.op = "Remove"
    /\ last.hit
    /\ \E b \in Buckets : Len(Walk(b)) = 2
    /\ Cardinality(allocated) = 2
    /\ Nodes \ allocated # {}

\* ---- C22 ----
\* Every index of the sequence is an index of the bucket array.
InBounds(ix) == \A k \in 1..Len(ix) : ix[k] >= 0 /\ ix[k] < set.count

\* C22: in every reachable state of a live table, which has at least one
\* bucket, every index at which HashSetAdd, HashSetGet, HashSetRemove,
\* HashSetDelete, HashSetIteratorNew or HashSetIteratorNext would access the
\* bucket array lies in 0..count-1; HashSetIteratorNext does not read
\* elements[count] when it passes the last bucket, and the bucket field of
\* the caller's iterator is never greater than count, before or after the
\* call, whether or not the caller has removed elements since it took the
\* iterator, as long as the cursor is not the address of a freed node.
IndexesInBounds ==
    arrayLive =>
        /\ set.count >= 1
        /\ \A p \in ElemPtrs :
              /\ InBounds(AddIndexes(set, heap, p))
              /\ InBounds(GetIndexes(set, heap, p))
              /\ InBounds(RemoveIndexes(set, heap, p))
        /\ InBounds(DeleteIndexes(set))
        /\ Len(DeleteIndexes(set)) = set.count
        /\ InBounds(IteratorNewIndexes(set))
        /\ (itState \in {"fresh", "stale"} /\ ~Dangling) =>
              /\ InBounds(IteratorNextIndexes(set, heap, it))
              /\ set.count \notin Range(IteratorNextIndexes(set, heap, it))
              /\ it.bucket <= set.count
              /\ HashSetIteratorNext(set, heap, it).it.bucket <= set.count

\* HashSetIteratorNext has just passed the last bucket of a table of
\* MaxCount buckets, the last of them empty, after it returned an element:
\* the cursor's bucket field is count.
IndexesInBoundsWitness ==
    /\ arrayLive
    /\ itState \in {"fresh", "stale"}
    /\ last.op = "IteratorNext"
    /\ last.ret = NULL
    /\ ~last.hit
    /\ set.count = MaxCount
    /\ set.elements[MaxCount - 1] = NULL
    /\ Len(yielded) >= 1
    /\ it.bucket = set.count

====
